---- MODULE Spec2Model ----
(***************************************************************************)
(* Model of src/main.py: four stateless utility functions                  *)
(*   get_days_from_today, get_numbers_ticket, normalize_phone,             *)
(*   get_upcoming_birthdays.                                               *)
(* Strings are sequences of one-character strings, dates are records       *)
(* [year, month, day]; the calendar arithmetic is the proleptic Gregorian  *)
(* arithmetic of datetime.date.                                            *)
(***************************************************************************)
EXTENDS Integers, Sequences, FiniteSets, TLC

VARIABLES pc, today, call, ret, i, birthday_date, next_birthday, upcoming_birthdays

vars == <<pc, today, call, ret, i, birthday_date, next_birthday, upcoming_birthdays>>

(***************************************************************************)
(* Bounds of the model.                                                    *)
(***************************************************************************)
\* today ranges over TodaySpan+1 consecutive days from each anchor date
TodaySpan == 8

\* get_numbers_ticket is called with low values up to MaxVal
MaxVal == 5

\* and with quantities up to MaxQuantity
MaxQuantity == 5

\* normalize_phone is called with every string of up to MaxPhoneLen characters
MaxPhoneLen == 4

\* get_upcoming_birthdays is called with lists of up to MaxUsers users
MaxUsers == 2

(***************************************************************************)
(* Characters, digits and integers in strings                              *)
(***************************************************************************)
Digits == <<"0", "1", "2", "3", "4", "5", "6", "7", "8", "9">>

\* \d of the re module (ASCII digits)
IsDigit(c) == \E k \in 1..10 : Digits[k] = c

DigitVal(c) == (CHOOSE k \in 1..10 : Digits[k] = c) - 1

\* str.isspace for the characters of the model's alphabets
IsSpace(c) == c \in {" ", "\t", "\n"}

RECURSIVE DigitsToInt(_)
DigitsToInt(s) ==
    IF s = <<>> THEN 0
    ELSE DigitsToInt(SubSeq(s, 1, Len(s) - 1)) * 10 + DigitVal(s[Len(s)])

\* int() of a matched group: surrounding blanks are ignored
IntOf(s) == DigitsToInt(SelectSeq(s, IsDigit))

\* "%02d" / "%04d"
Pad(n, w) == [k \in 1..w |-> Digits[((n \div (10 ^ (w - k))) % 10) + 1]]

(***************************************************************************)
(* datetime.date                                                           *)
(***************************************************************************)
MkDate(y, m, d) == [year |-> y, month |-> m, day |-> d]

NoDate == [year |-> 0, month |-> 0, day |-> 0]

IsLeap(y) == y % 4 = 0 /\ (y % 100 # 0 \/ y % 400 = 0)

DaysInMonthTable == <<31, 28, 31, 30, 31, 30, 31, 31, 30, 31, 30, 31>>

DaysBeforeMonthTable == <<0, 31, 59, 90, 120, 151, 181, 212, 243, 273, 304, 334>>

DaysInMonth(y, m) ==
    IF m = 2 /\ IsLeap(y) THEN 29 ELSE DaysInMonthTable[m]

DaysBeforeYear(y) ==
    (y - 1) * 365 + ((y - 1) \div 4) - ((y - 1) \div 100) + ((y - 1) \div 400)

\* mutant of DaysBeforeMonth: the leap day is not counted
DaysBeforeMonth_NoLeap(y, m) == DaysBeforeMonthTable[m]

DaysBeforeMonth(y, m) ==
    DaysBeforeMonthTable[m] + (IF m > 2 /\ IsLeap(y) THEN 1 ELSE 0)

\* date(year, month, day) accepts exactly these triples
ValidDate(y, m, d) ==
    /\ y >= 1 /\ y <= 9999
    /\ m >= 1 /\ m <= 12
    /\ d >= 1 /\ d <= DaysInMonth(y, m)

ToOrdinal(dt) ==
    DaysBeforeYear(dt.year) + DaysBeforeMonth(dt.year, dt.month) + dt.day

FromOrdinal(n) ==
    LET n0   == n - 1
        n400 == n0 \div 146097
        r400 == n0 % 146097
        n100 == r400 \div 36524
        r100 == r400 % 36524
        n4   == r100 \div 1461
        r4   == r100 % 1461
        n1   == r4 \div 365
        r1   == r4 % 365
        year == n400 * 400 + 1 + n100 * 100 + n4 * 4 + n1
    IN  IF n1 = 4 \/ n100 = 4 THEN MkDate(year - 1, 12, 31)
        ELSE
          LET leapyear == n1 = 3 /\ (n4 # 24 \/ n100 = 3)
              month0   == (r1 + 50) \div 32
              prec0    == DaysBeforeMonthTable[month0]
                            + (IF month0 > 2 /\ leapyear THEN 1 ELSE 0)
              month    == IF prec0 > r1 THEN month0 - 1 ELSE month0
              prec     == IF prec0 > r1
                          THEN prec0 - (DaysInMonthTable[month]
                                          + (IF month = 2 /\ leapyear THEN 1 ELSE 0))
                          ELSE prec0
          IN  MkDate(year, month, r1 - prec + 1)

\* date.weekday(): Monday is 0, Sunday is 6
Weekday(dt) == (ToOrdinal(dt) + 6) % 7

\* mutant of DateSub: the operands are swapped
DateSub_Reversed(a, b) == ToOrdinal(b) - ToOrdinal(a)

\* date.__sub__(date).days
DateSub(a, b) == ToOrdinal(a) - ToOrdinal(b)

\* date + timedelta(days=n)
DateAddDays(dt, n) == FromOrdinal(ToOrdinal(dt) + n)

\* date.__lt__
DateLess(a, b) ==
    \/ a.year < b.year
    \/ a.year = b.year /\ a.month < b.month
    \/ a.year = b.year /\ a.month = b.month /\ a.day < b.day

\* date.replace(year=y, day=d): ok is FALSE where Python raises ValueError
DateReplace(dt, y, d) ==
    IF ValidDate(y, dt.month, d)
    THEN [ok |-> TRUE, date |-> MkDate(y, dt.month, d)]
    ELSE [ok |-> FALSE, date |-> NoDate]

\* date.strftime("%Y<sep>%m<sep>%d")
Strftime(dt, sep) ==
    Pad(dt.year, 4) \o <<sep>> \o Pad(dt.month, 2) \o <<sep>> \o Pad(dt.day, 2)

(***************************************************************************)
(* datetime.strptime(s, "%Y<sep>%m<sep>%d").date()                         *)
(* The format compiles to the regular expression                           *)
(*   (\d\d\d\d) sep (1[0-2]|0[1-9]|[1-9]) sep                              *)
(*   (3[0-1]|[1-2]\d|0[1-9]|[1-9]| [1-9])                                  *)
(* matched at the start of s; data left after the match is an error.       *)
(***************************************************************************)
At(s, k) == IF k >= 1 /\ k <= Len(s) THEN s[k] ELSE ""

IsNonZeroDigit(c) == IsDigit(c) /\ c # "0"

\* lengths of the alternatives of %m that match at position k, in priority order
MonthAlts(s, k) ==
    (IF At(s, k) = "1" /\ At(s, k + 1) \in {"0", "1", "2"} THEN <<2>> ELSE <<>>)
    \o (IF At(s, k) = "0" /\ IsNonZeroDigit(At(s, k + 1)) THEN <<2>> ELSE <<>>)
    \o (IF IsNonZeroDigit(At(s, k)) THEN <<1>> ELSE <<>>)

\* length of the first alternative of %d that matches at position k, 0 if none
DayLen(s, k) ==
    IF At(s, k) = "3" /\ At(s, k + 1) \in {"0", "1"} THEN 2
    ELSE IF At(s, k) \in {"1", "2"} /\ IsDigit(At(s, k + 1)) THEN 2
    ELSE IF At(s, k) = "0" /\ IsNonZeroDigit(At(s, k + 1)) THEN 2
    ELSE IF IsNonZeroDigit(At(s, k)) THEN 1
    ELSE IF At(s, k) = " " /\ IsNonZeroDigit(At(s, k + 1)) THEN 2
    ELSE 0

\* the month alternatives after which the rest of the expression matches
MonthFits(s, sep) ==
    SelectSeq(MonthAlts(s, 6),
              LAMBDA L : At(s, 6 + L) = sep /\ DayLen(s, 6 + L + 1) > 0)

Strptime(s, sep) ==
    LET bad == [ok |-> FALSE, date |-> NoDate] IN
    IF ~(\A k \in 1..4 : IsDigit(At(s, k))) \/ At(s, 5) # sep THEN bad
    ELSE IF MonthFits(s, sep) = <<>> THEN bad
    ELSE
      LET mlen == MonthFits(s, sep)[1]
          dpos == 6 + mlen + 1
          dlen == DayLen(s, dpos)
          y    == IntOf(SubSeq(s, 1, 4))
          m    == IntOf(SubSeq(s, 6, 6 + mlen - 1))
          d    == IntOf(SubSeq(s, dpos, dpos + dlen - 1))
      IN  IF dpos + dlen - 1 # Len(s) THEN bad        \* unconverted data remains
          ELSE IF ~ValidDate(y, m, d) THEN bad        \* out of range for the calendar
          ELSE [ok |-> TRUE, date |-> MkDate(y, m, d)]

(***************************************************************************)
(* The system clock: the dates datetime.today().date() may return          *)
(***************************************************************************)
Anchors ==
    { MkDate(2023, 2, 22), MkDate(2024, 2, 22), MkDate(2023, 12, 24), MkDate(2024, 1, 15) }

Todays == { DateAddDays(a, k) : a \in Anchors, k \in 0..TodaySpan }

(***************************************************************************)
(* State before any call and after a call has returned: no locals live     *)
(***************************************************************************)
NoCall == [fn |-> "none"]

NoRet == [kind |-> "none"]

Returned(v) == [kind |-> "return", val |-> v]

Raised(e, m) == [kind |-> "raise", exc |-> e, msg |-> m]

Init ==
    /\ pc = "idle"
    /\ today = NoDate
    /\ call = NoCall
    /\ ret = NoRet
    /\ i = 0
    /\ birthday_date = NoDate
    /\ next_birthday = NoDate
    /\ upcoming_birthdays = <<>>

\* the caller takes the result; the locals of the call are gone
Return ==
    /\ pc = "done"
    /\ pc' = "idle"
    /\ today' = NoDate
    /\ call' = NoCall
    /\ ret' = NoRet
    /\ i' = 0
    /\ birthday_date' = NoDate
    /\ next_birthday' = NoDate
    /\ upcoming_birthdays' = <<>>

(***************************************************************************)
(* get_days_from_today                                                     *)
(***************************************************************************)
InvalidDateMessage == "Invalid date format. Expected 'YYYY-MM-DD'."

\* the result of get_days_from_today(date_str) when the clock reads t
DaysFromToday(t, date_str) ==
    LET parsed == Strptime(date_str, "-") IN
    IF ~parsed.ok THEN Raised("ValueError", InvalidDateMessage)
    ELSE Returned(DateSub(t, parsed.date))

\* unpadded decimal of a number below 100
Dec(n) == IF n < 10 THEN <<Digits[n + 1]>> ELSE Pad(n, 2)

DateStr(y, m, d) == Pad(y, 4) \o <<"-">> \o Pad(m, 2) \o <<"-">> \o Pad(d, 2)

\* well-shaped strings, with months 00..13 and days 00..32
CanonicalStrings ==
    { DateStr(y, m, d) : y \in {2021, 2023, 2024}, m \in 0..13, d \in 0..32 }

CenturyStrings ==
    { DateStr(y, m, d) : y \in {1900, 2000}, m \in {2, 3}, d \in {1, 28, 29} }
    \cup { DateStr(0, 1, 1), DateStr(1, 1, 1), DateStr(9999, 12, 31) }

\* strings that depart from the shape in one or more places
LooseStrings ==
    { ys \o <<sep>> \o ms \o <<sep>> \o ds \o suffix :
        ys \in { Pad(2024, 4), Pad(202, 3), Pad(20240, 5) },
        sep \in { "-", "." },
        ms \in { Pad(1, 2), Dec(1), Pad(10, 2), Pad(12, 2), Dec(9), <<"1", "x">> },
        ds \in { Pad(5, 2), Dec(5), <<" ", "5">>, Dec(12), Dec(31), Pad(31, 2),
                 <<"5", " ">>, <<"3">>, <<>> },
        suffix \in { <<>>, <<" ">>, <<"0">> } }

DateStrings == CanonicalStrings \cup CenturyStrings \cup LooseStrings

GetDaysFromToday ==
    /\ pc = "idle"
    /\ \E t \in Todays, date_str \in DateStrings :
         /\ today' = t
         /\ call' = [fn |-> "get_days_from_today", arg |-> date_str]
         /\ ret' = DaysFromToday(t, date_str)
    /\ pc' = "done"
    /\ UNCHANGED <<i, birthday_date, next_birthday, upcoming_birthdays>>

NextDays == GetDaysFromToday \/ Return

SpecDays == Init /\ [][NextDays]_vars

(***************************************************************************)
(* get_numbers_ticket                                                      *)
(***************************************************************************)
\* mutant of InvalidTicket: the test quantity < 1 is left out
InvalidTicket_NoQuantityFloor(min_val, max_val, quantity) ==
    \/ min_val < 1
    \/ max_val > 1000
    \/ quantity > (max_val - min_val + 1)

\* the guard of the early return
InvalidTicket(min_val, max_val, quantity) ==
    \/ min_val < 1
    \/ max_val > 1000
    \/ quantity < 1
    \/ quantity > (max_val - min_val + 1)

\* random.sample(range(lo, hi + 1), k): every ordered choice of k distinct
\* members, or ValueError when k is negative or larger than the population
RandomSample(lo, hi, k) ==
    IF k < 0 \/ k > Cardinality(lo..hi)
    THEN { Raised("ValueError", "Sample larger than population or is negative") }
    ELSE { Returned(f) :
             f \in { g \in [1..k -> lo..hi] : \A a, b \in 1..k : a # b => g[a] # g[b] } }

\* mutant of Sort: the sort is left out
Sort_Unsorted(s) == s

RECURSIVE Insert(_, _)
Insert(x, s) ==
    IF s = <<>> THEN <<x>>
    ELSE IF x <= s[1] THEN <<x>> \o s
    ELSE <<s[1]>> \o Insert(x, Tail(s))

\* list.sort()
RECURSIVE Sort(_)
Sort(s) == IF s = <<>> THEN <<>> ELSE Insert(s[1], Sort(Tail(s)))

\* the outcomes of get_numbers_ticket(min_val, max_val, quantity)
NumbersTicket(min_val, max_val, quantity) ==
    IF InvalidTicket(min_val, max_val, quantity) THEN { Returned(<<>>) }
    ELSE { IF numbers.kind = "raise" THEN numbers ELSE Returned(Sort(numbers.val)) :
             numbers \in RandomSample(min_val, max_val, quantity) }

LowValues == -1..MaxVal

HighValues == {998, 999, 1000, 1001}

\* argument triples: both ends low, both ends near the upper limit, or a wide
\* range with a quantity for which the draw stays small
TicketArgs ==
    { <<lo, hi, q>> : lo \in LowValues, hi \in LowValues, q \in -1..MaxQuantity }
    \cup { <<lo, hi, q>> : lo \in HighValues, hi \in HighValues, q \in -1..MaxQuantity }
    \cup { <<lo, hi, q>> : lo \in {0, 1, 2}, hi \in HighValues, q \in {-1, 0, 1, 1001} }

GetNumbersTicket ==
    /\ pc = "idle"
    /\ \E args \in TicketArgs :
         /\ call' = [fn |-> "get_numbers_ticket", min_val |-> args[1],
                     max_val |-> args[2], quantity |-> args[3]]
         /\ ret' \in NumbersTicket(args[1], args[2], args[3])
    /\ pc' = "done"
    /\ UNCHANGED <<today, i, birthday_date, next_birthday, upcoming_birthdays>>

NextTicket == GetNumbersTicket \/ Return

SpecTicket == Init /\ [][NextTicket]_vars

(***************************************************************************)
(* Properties of get_numbers_ticket                                        *)
(***************************************************************************)
TicketDone == pc = "done" /\ call.fn = "get_numbers_ticket"

\* the number of integers in [lo, hi]
RefCount(lo, hi) == Cardinality({ x \in lo..hi : TRUE })

\* C1: with min_val >= 1, max_val <= 1000 and 1 <= quantity <= max_val - min_val + 1,
\* every result of get_numbers_ticket is a sequence of exactly quantity integers,
\* each in [min_val, max_val], in strictly ascending order (hence pairwise distinct).
C1_SortedUniqueSample ==
    (/\ TicketDone
     /\ call.min_val >= 1 /\ call.max_val <= 1000 /\ call.quantity >= 1
     /\ call.quantity <= call.max_val - call.min_val + 1) =>
        /\ ret.kind = "return"
        /\ Len(ret.val) = call.quantity
        /\ \A j \in 1..Len(ret.val) : ret.val[j] \in call.min_val..call.max_val
        /\ \A j, k \in 1..Len(ret.val) : j # k => ret.val[j] # ret.val[k]
        /\ \A j, k \in 1..Len(ret.val) : j < k => ret.val[j] < ret.val[k]

\* a draw of three of the five numbers 1..5
C1_Witness ==
    /\ TicketDone
    /\ call.min_val = 1 /\ call.max_val = 5 /\ call.quantity = 3
    /\ ret = Returned(<<2, 4, 5>>)

\* C2: get_numbers_ticket never raises, and returns the empty sequence whenever
\* min_val < 1, max_val > 1000, quantity < 1, or quantity exceeds the number of
\* integers in [min_val, max_val] (min_val > max_val included).
C2_InvalidGivesEmpty ==
    TicketDone =>
        /\ ret.kind = "return"
        /\ (\/ call.min_val < 1
            \/ call.max_val > 1000
            \/ call.quantity < 1
            \/ call.quantity > RefCount(call.min_val, call.max_val)) => ret.val = <<>>

\* a call with min_val > max_val has returned the empty sequence
C2_Witness ==
    /\ TicketDone
    /\ call.min_val = 3 /\ call.max_val = 1 /\ call.quantity = 1
    /\ ret = Returned(<<>>)

(***************************************************************************)
(* normalize_phone                                                         *)
(***************************************************************************)
\* str.strip()
RECURSIVE LStrip(_)
LStrip(s) == IF s # <<>> /\ IsSpace(s[1]) THEN LStrip(Tail(s)) ELSE s

RECURSIVE RStrip(_)
RStrip(s) ==
    IF s # <<>> /\ IsSpace(s[Len(s)]) THEN RStrip(SubSeq(s, 1, Len(s) - 1)) ELSE s

\* mutant of Strip: the input is not stripped
Strip_Missing(s) == s

Strip(s) == RStrip(LStrip(s))

\* str.startswith
StartsWith(s, prefix) ==
    Len(s) >= Len(prefix) /\ SubSeq(s, 1, Len(prefix)) = prefix

\* re.sub(r"\D", "", s)
RemoveNonDigits(s) == SelectSeq(s, IsDigit)

NormalizePhone(phone_number) ==
    LET stripped == Strip(phone_number) IN
    IF StartsWith(stripped, <<"+">>)
    THEN <<"+">> \o RemoveNonDigits(Tail(stripped))
    ELSE LET digits == RemoveNonDigits(stripped) IN
         IF StartsWith(digits, <<"3", "8", "0">>)
         THEN <<"+">> \o digits
         ELSE <<"+", "3", "8">> \o digits

PhoneChars == {"0", "3", "8", "5", "+", " ", "-"}

\* every string of at most MaxPhoneLen characters of PhoneChars
ShortNumbers == UNION { [1..n -> PhoneChars] : n \in 0..MaxPhoneLen }

\* the numbers the script normalizes
RawNumbers ==
    { <<"0", "6", "7", "\t", "1", "2", "3", " ", "4", "5", "6", "7">>,
      <<"(", "0", "9", "5", ")", " ", "2", "3", "4", "-", "5", "6", "7", "8", "\n">>,
      <<"+", "3", "8", "0", " ", "4", "4", " ", "1", "2", "3", " ", "4", "5", "6", "7">>,
      <<"3", "8", "0", "5", "0", "1", "2", "3", "4", "5", "6", "7">>,
      <<" ", " ", " ", " ", "+", "3", "8", "(", "0", "5", "0", ")", "1", "2", "3", "-", "3", "2", "-", "3", "4">>,
      <<" ", " ", " ", " ", " ", "0", "5", "0", "3", "4", "5", "1", "2", "3", "4">>,
      <<"(", "0", "5", "0", ")", "8", "8", "8", "9", "9", "0", "0">>,
      <<"3", "8", "0", "5", "0", "-", "1", "1", "1", "-", "2", "2", "-", "2", "2">>,
      <<"3", "8", "0", "5", "0", " ", "1", "1", "1", " ", "2", "2", " ", "1", "1", " ", " ", " ">> }

PhoneNumbers ==
    ShortNumbers \cup RawNumbers
      \cup { <<"0", "5", "0", "3", "4", "5", "1", "2", "3", "4">> }

NormalizePhoneCall ==
    /\ pc = "idle"
    /\ \E phone_number \in PhoneNumbers :
         /\ call' = [fn |-> "normalize_phone", arg |-> phone_number]
         /\ ret' = Returned(NormalizePhone(phone_number))
    /\ pc' = "done"
    /\ UNCHANGED <<today, i, birthday_date, next_birthday, upcoming_birthdays>>

NextPhone == NormalizePhoneCall \/ Return

SpecPhone == Init /\ [][NextPhone]_vars

(***************************************************************************)
(* Properties of normalize_phone                                           *)
(***************************************************************************)
PhoneDone == pc = "done" /\ call.fn = "normalize_phone"

RefBlank(c) == c = " " \/ c = "\t" \/ c = "\n"

\* s without its leading and trailing whitespace
RefTrim(s) ==
    LET keep == { k \in 1..Len(s) : ~RefBlank(s[k]) } IN
    IF keep = {} THEN <<>>
    ELSE SubSeq(s, CHOOSE k \in keep : \A j \in keep : k <= j,
                   CHOOSE k \in keep : \A j \in keep : k >= j)

\* the digits of s, in order
RECURSIVE RefDigits(_)
RefDigits(s) ==
    IF s = <<>> THEN <<>>
    ELSE RefDigits(SubSeq(s, 1, Len(s) - 1))
           \o (IF s[Len(s)] \in {Digits[j] : j \in 1..10} THEN <<s[Len(s)]>> ELSE <<>>)

RefNormalized(s) ==
    LET t == RefTrim(s)
        d == RefDigits(t)
    IN  IF Len(t) > 0 /\ t[1] = "+"
        THEN <<"+">> \o RefDigits(SubSeq(t, 2, Len(t)))
        ELSE IF Len(d) >= 3 /\ d[1] = "3" /\ d[2] = "8" /\ d[3] = "0"
             THEN <<"+">> \o d
             ELSE <<"+", "3", "8">> \o d

\* C3: normalize_phone(s) is the reference result: with t the trimmed s, '+' and
\* the digits of the rest of t when t starts with '+'; otherwise, with d the digits
\* of t, '+' and d when d starts with '380', and '+38' and d in every other case.
C3_MatchesReference ==
    PhoneDone => (ret.kind = "return" /\ ret.val = RefNormalized(call.arg))

\* the local number "     0503451234" has been normalized to "+380503451234"
C3_Witness ==
    /\ PhoneDone
    /\ call.arg = <<" ", " ", " ", " ", " ", "0", "5", "0", "3", "4", "5", "1", "2", "3", "4">>
    /\ ret = Returned(<<"+", "3", "8", "0", "5", "0", "3", "4", "5", "1", "2", "3", "4">>)

(***************************************************************************)
(* get_upcoming_birthdays                                                  *)
(* A user is a function from the keys it has to their values.              *)
(***************************************************************************)
\* mutant of ReplaceYear: no fallback to day - 1
ReplaceYear_NoFallback(bd, year) == DateReplace(bd, year, bd.day)

\* the try/except around birthday_date.replace(year=...): the date in that
\* year, with day - 1 when the date does not exist there; ok is FALSE when the
\* second replace raises too
ReplaceYear(bd, year) ==
    IF DateReplace(bd, year, bd.day).ok
    THEN DateReplace(bd, year, bd.day)
    ELSE DateReplace(bd, year, bd.day - 1)

\* mutant of InWindow: the seventh day is left out
InWindow_Exclusive(days_until_birthday) ==
    0 <= days_until_birthday /\ days_until_birthday < 7

\* 0 <= days_until_birthday <= 7
InWindow(days_until_birthday) ==
    0 <= days_until_birthday /\ days_until_birthday <= 7

\* mutant of WeekendShift: a Saturday is moved by one day only
WeekendShift_SaturdayByOne(nb) ==
    IF Weekday(nb) = 5 THEN DateAddDays(nb, 1)
    ELSE IF Weekday(nb) = 6 THEN DateAddDays(nb, 1)
    ELSE nb

\* the move of a Saturday or Sunday to the Monday after it
WeekendShift(nb) ==
    IF Weekday(nb) = 5 THEN DateAddDays(nb, 2)
    ELSE IF Weekday(nb) = 6 THEN DateAddDays(nb, 1)
    ELSE nb

BirthdayStr(y, m, d) == Pad(y, 4) \o <<".">> \o Pad(m, 2) \o <<".">> \o Pad(d, 2)

NotADate == <<"n", "o", "t", "-", "a", "-", "d", "a", "t", "e">>

\* birthdays of the records given alone: every day number 1..31 of four months,
\* leap days, loosely written and unparseable strings
SingleBirthdays ==
    { BirthdayStr(1990, m, d) : m \in {1, 2, 3, 12}, d \in 1..31 }
    \cup { BirthdayStr(2000, 2, 29), BirthdayStr(1996, 2, 29), BirthdayStr(1985, 1, 23) }
    \cup { Pad(1990, 4) \o <<".">> \o Dec(1) \o <<".">> \o Pad(27, 2),
           Pad(1990, 4) \o <<".">> \o Pad(2, 2) \o <<".">> \o <<" ", "1">>,
           DateStr(1990, 1, 27), NotADate, <<>> }

NamelessBirthdays ==
    { BirthdayStr(1990, 1, 27), BirthdayStr(2000, 2, 29), BirthdayStr(1990, 12, 31),
      BirthdayStr(1990, 6, 15), NotADate }

SingleUsers ==
    { [name |-> "A", birthday |-> b] : b \in SingleBirthdays }
    \cup { [birthday |-> b] : b \in NamelessBirthdays }
    \cup { [name |-> "A"] }

\* the records that longer lists are made of
CoreUsers ==
    { [name |-> "A", birthday |-> BirthdayStr(1990, 1, 27)],
      [name |-> "B", birthday |-> BirthdayStr(1985, 1, 23)],
      [name |-> "C", birthday |-> BirthdayStr(2000, 2, 29)],
      [name |-> "D", birthday |-> BirthdayStr(1990, 12, 31)],
      [name |-> "E", birthday |-> NotADate],
      [birthday |-> BirthdayStr(1990, 1, 27)] }

UserLists ==
    { <<>> } \cup { <<u>> : u \in SingleUsers }
    \cup UNION { [1..n -> CoreUsers] : n \in 2..MaxUsers }

\* lines 77-78: read the clock, start with no greetings
GetUpcomingBirthdays ==
    /\ pc = "idle"
    /\ \E t \in Todays, users \in UserLists :
         /\ today' = t
         /\ call' = [fn |-> "get_upcoming_birthdays", users |-> users]
    /\ upcoming_birthdays' = <<>>
    /\ i' = 1
    /\ pc' = "loop"
    /\ UNCHANGED <<ret, birthday_date, next_birthday>>

InLoop(at) == pc = at /\ call.fn = "get_upcoming_birthdays"

\* lines 80-84: take the next user and parse its birthday; a user without the
\* key or with a string that does not parse is passed over
ParseBirthday ==
    /\ InLoop("loop") /\ i <= Len(call.users)
    /\ LET user == call.users[i] IN
       IF "birthday" \in DOMAIN user /\ Strptime(user.birthday, ".").ok
       THEN /\ birthday_date' = Strptime(user.birthday, ".").date
            /\ pc' = "this_year"
            /\ UNCHANGED i
       ELSE /\ i' = i + 1
            /\ UNCHANGED <<pc, birthday_date>>
    /\ UNCHANGED <<today, call, ret, next_birthday, upcoming_birthdays>>

\* lines 86-91: the birthday in the current year
ThisYear ==
    /\ InLoop("this_year")
    /\ LET r == ReplaceYear(birthday_date, today.year) IN
       IF r.ok
       THEN /\ next_birthday' = r.date
            /\ pc' = "next_year"
            /\ UNCHANGED ret
       ELSE /\ ret' = Raised("ValueError", "day is out of range for month")
            /\ pc' = "done"
            /\ UNCHANGED next_birthday
    /\ UNCHANGED <<today, call, i, birthday_date, upcoming_birthdays>>

\* lines 93-99: the birthday in the next year when this year's has passed
NextYear ==
    /\ InLoop("next_year")
    /\ IF DateLess(next_birthday, today)
       THEN LET r == ReplaceYear(birthday_date, today.year + 1) IN
            IF r.ok
            THEN /\ next_birthday' = r.date
                 /\ pc' = "window"
                 /\ UNCHANGED ret
            ELSE /\ ret' = Raised("ValueError", "day is out of range for month")
                 /\ pc' = "done"
                 /\ UNCHANGED next_birthday
       ELSE /\ pc' = "window"
            /\ UNCHANGED <<ret, next_birthday>>
    /\ UNCHANGED <<today, call, i, birthday_date, upcoming_birthdays>>

\* lines 101-115: within the window, move a weekend date to Monday and append
\* the greeting; user["name"] raises KeyError when the key is absent
Window ==
    /\ InLoop("window")
    /\ LET user == call.users[i]
           days_until_birthday == DateSub(next_birthday, today)
       IN  IF InWindow(days_until_birthday)
           THEN IF "name" \in DOMAIN user
                THEN /\ next_birthday' = WeekendShift(next_birthday)
                     /\ upcoming_birthdays' = Append(upcoming_birthdays,
                            [name |-> user.name,
                             congratulation_date |->
                                 Strftime(WeekendShift(next_birthday), ".")])
                     /\ i' = i + 1
                     /\ pc' = "loop"
                     /\ UNCHANGED ret
                ELSE /\ next_birthday' = WeekendShift(next_birthday)
                     /\ ret' = Raised("KeyError", "name")
                     /\ pc' = "done"
                     /\ UNCHANGED <<i, upcoming_birthdays>>
           ELSE /\ i' = i + 1
                /\ pc' = "loop"
                /\ UNCHANGED <<ret, next_birthday, upcoming_birthdays>>
    /\ UNCHANGED <<today, call, birthday_date>>

\* line 117
ReturnUpcoming ==
    /\ InLoop("loop") /\ i > Len(call.users)
    /\ ret' = Returned(upcoming_birthdays)
    /\ pc' = "done"
    /\ UNCHANGED <<today, call, i, birthday_date, next_birthday, upcoming_birthdays>>

NextBirthdays ==
    \/ GetUpcomingBirthdays
    \/ ParseBirthday
    \/ ThisYear
    \/ NextYear
    \/ Window
    \/ ReturnUpcoming
    \/ Return

SpecBirthdays == Init /\ [][NextBirthdays]_vars

(***************************************************************************)
(* Properties of get_days_from_today                                       *)
(***************************************************************************)
DaysDone == pc = "done" /\ call.fn = "get_days_from_today"

\* Reference reading of 'YYYY-MM-DD': four digits, '-', two digits, '-', two
\* digits, naming a day of the Gregorian calendar
RefLeap(y) == (y % 400 = 0) \/ (y % 4 = 0 /\ y % 100 # 0)

RefMonthLength(y, m) ==
    IF m \in {4, 6, 9, 11} THEN 30
    ELSE IF m = 2 THEN (IF RefLeap(y) THEN 29 ELSE 28)
    ELSE 31

RefShape(s, sep) ==
    /\ Len(s) = 10
    /\ \A k \in {1, 2, 3, 4, 6, 7, 9, 10} : s[k] \in {Digits[j] : j \in 1..10}
    /\ s[5] = sep /\ s[8] = sep

RefNumber(s, a, b) ==
    IF a = b THEN DigitVal(s[a]) ELSE 10 * DigitVal(s[a]) + DigitVal(s[b])

RefDate(s) ==
    MkDate(1000 * DigitVal(s[1]) + 100 * DigitVal(s[2]) + RefNumber(s, 3, 4),
           RefNumber(s, 6, 7), RefNumber(s, 9, 10))

RefValid(s, sep) ==
    /\ RefShape(s, sep)
    /\ RefDate(s).year >= 1
    /\ RefDate(s).month \in 1..12
    /\ RefDate(s).day \in 1..RefMonthLength(RefDate(s).year, RefDate(s).month)

\* Julian day number of a Gregorian date (Fliegel and Van Flandern)
RefDayNumber(dt) ==
    LET a == (14 - dt.month) \div 12
        y == dt.year + 4800 - a
        m == dt.month + 12 * a - 3
    IN  dt.day + ((153 * m + 2) \div 5) + 365 * y
          + (y \div 4) - (y \div 100) + (y \div 400) - 32045

RefBefore(a, b) ==
    a.year * 10000 + a.month * 100 + a.day < b.year * 10000 + b.month * 100 + b.day

\* C4: for every string that is a valid calendar date in 'YYYY-MM-DD' form,
\* get_days_from_today returns the number of whole days of today - input date:
\* positive for a past date, zero for today, negative for a future date.
C4_WholeDays ==
    (DaysDone /\ RefValid(call.arg, "-")) =>
        /\ ret.kind = "return"
        /\ ret.val = RefDayNumber(today) - RefDayNumber(RefDate(call.arg))
        /\ (RefBefore(RefDate(call.arg), today) <=> ret.val > 0)
        /\ (RefDate(call.arg) = today <=> ret.val = 0)
        /\ (RefBefore(today, RefDate(call.arg)) <=> ret.val < 0)

\* a past date across a leap day, today itself and a future date have been given
C4_Witness ==
    /\ DaysDone /\ RefValid(call.arg, "-")
    /\ today = MkDate(2024, 3, 1)
    /\ call.arg = DateStr(2023, 3, 1)
    /\ ret = Returned(366)

\* C5 as stated: with today 2024-01-01, get_days_from_today("2021-10-09") is 815
C5_Returns815 ==
    (DaysDone /\ today = MkDate(2024, 1, 1) /\ call.arg = DateStr(2021, 10, 9))
        => ret = Returned(815)

\* C5 amended: with today 2024-01-01, get_days_from_today("2021-10-09") is 814
C5_Returns814 ==
    (DaysDone /\ today = MkDate(2024, 1, 1) /\ call.arg = DateStr(2021, 10, 9))
        => ret = Returned(814)

C5_Witness ==
    /\ DaysDone /\ today = MkDate(2024, 1, 1) /\ call.arg = DateStr(2021, 10, 9)
    /\ ret.kind = "return"

\* C6: get_days_from_today raises the format error, and returns no integer, for
\* every string that is not of the form YYYY-MM-DD (four-digit year, two-digit
\* month, two-digit day, '-' between them) or that names no calendar date
C6_RejectsAllMalformed ==
    (DaysDone /\ ~RefValid(call.arg, "-")) =>
        ret = Raised("ValueError", InvalidDateMessage)

(***************************************************************************)
(* Properties of get_upcoming_birthdays                                    *)
(***************************************************************************)
BirthdaysDone == pc = "done" /\ call.fn = "get_upcoming_birthdays"

\* a record with a name and a birthday that is a calendar date as YYYY.MM.DD
WellFormed(u) ==
    /\ "name" \in DOMAIN u
    /\ "birthday" \in DOMAIN u
    /\ RefValid(u.birthday, ".")

AllWellFormed(users) == \A k \in 1..Len(users) : WellFormed(users[k])

\* the day after dt
RefNextDay(dt) ==
    IF dt.day < RefMonthLength(dt.year, dt.month) THEN MkDate(dt.year, dt.month, dt.day + 1)
    ELSE IF dt.month < 12 THEN MkDate(dt.year, dt.month + 1, 1)
    ELSE MkDate(dt.year + 1, 1, 1)

\* 0 is Monday, 5 Saturday, 6 Sunday
RefWeekday(dt) == RefDayNumber(dt) % 7

\* the occurrence of birthday b in year y: the same month and day, Feb 28 for a
\* Feb 29 birthday in a year that is not a leap year
RefOccurrence(b, y) ==
    IF b.month = 2 /\ b.day = 29 /\ ~RefLeap(y) THEN MkDate(y, 2, 28)
    ELSE MkDate(y, b.month, b.day)

\* this year's occurrence, or next year's when this year's is earlier than t
RefNext(b, t) ==
    IF RefBefore(RefOccurrence(b, t.year), t) THEN RefOccurrence(b, t.year + 1)
    ELSE RefOccurrence(b, t.year)

RefQualifies(u, t) ==
    LET dist == RefDayNumber(RefNext(RefDate(u.birthday), t)) - RefDayNumber(t)
    IN  dist >= 0 /\ dist <= 7

RefQualifying(users, t) == SelectSeq(users, LAMBDA u : RefQualifies(u, t))

\* the occurrence moved off the weekend
RefCongratulation(occ) ==
    IF RefWeekday(occ) = 5 THEN RefNextDay(RefNextDay(occ))
    ELSE IF RefWeekday(occ) = 6 THEN RefNextDay(occ)
    ELSE occ

NamesOf(records) == [k \in 1..Len(records) |-> records[k].name]

\* C7: get_upcoming_birthdays never raises: whatever the records (birthday
\* missing or unparseable, name missing), the call returns, and only records with
\* a name and a parseable birthday contribute greetings.
C7_NeverRaises ==
    BirthdaysDone =>
        /\ ret.kind = "return"
        /\ Len(ret.val) <= Cardinality({ k \in 1..Len(call.users) :
                /\ "name" \in DOMAIN call.users[k]
                /\ "birthday" \in DOMAIN call.users[k]
                /\ Strptime(call.users[k].birthday, ".").ok })

\* C8: for well-formed records, the names of the result are, in input order and
\* one per record, the names of the records whose next birthday occurrence (this
\* year's, or next year's when this year's is earlier than today) is 0 to 7 days
\* after today.
C8_NamesAreQualifying ==
    (BirthdaysDone /\ AllWellFormed(call.users)) =>
        /\ ret.kind = "return"
        /\ NamesOf(ret.val) = NamesOf(RefQualifying(call.users, today))

\* of two records, the first 11 days away is omitted and the second 7 days away kept
C8_Witness ==
    /\ BirthdaysDone
    /\ today = MkDate(2024, 1, 16)
    /\ call.users = << [name |-> "A", birthday |-> BirthdayStr(1990, 1, 27)],
                       [name |-> "B", birthday |-> BirthdayStr(1985, 1, 23)] >>
    /\ ret.kind = "return"
    /\ NamesOf(ret.val) = <<"B">>

\* C9: every congratulation_date is a YYYY.MM.DD date that is not a Saturday or
\* Sunday, and for well-formed records it is the occurrence plus 2 days when the
\* occurrence is a Saturday, plus 1 day when it is a Sunday, and the occurrence
\* itself otherwise.
C9_WeekendMovedToMonday ==
    (BirthdaysDone /\ ret.kind = "return") =>
        /\ \A j \in 1..Len(ret.val) :
             /\ RefValid(ret.val[j].congratulation_date, ".")
             /\ RefWeekday(RefDate(ret.val[j].congratulation_date)) \notin {5, 6}
        /\ AllWellFormed(call.users) =>
             /\ Len(ret.val) = Len(RefQualifying(call.users, today))
             /\ \A j \in 1..Len(ret.val) :
                  RefDate(ret.val[j].congratulation_date)
                    = RefCongratulation(
                        RefNext(RefDate(RefQualifying(call.users, today)[j].birthday), today))

\* today 2024-01-20, birthday 1990.01.27 (a Saturday in 2024) gives 2024.01.29
C9_Witness ==
    /\ BirthdaysDone
    /\ today = MkDate(2024, 1, 20)
    /\ call.users = << [name |-> "A", birthday |-> BirthdayStr(1990, 1, 27)] >>
    /\ ret = Returned(<< [name |-> "A",
                          congratulation_date |-> BirthdayStr(2024, 1, 29)] >>)

IsLeapDay(dt) == dt.month = 2 /\ dt.day = 29

====
